---- MODULE Spec2Model ----
(***************************************************************************)
(* PatternPlay: the dbt bridge (core.py, SchemaAnalytics), the agent's     *)
(* memory store (agent.py, AgentMemory) and the analytics agent (agent.py, *)
(* AnalyticsAgent), rule-based and with an LLM client.                     *)
(*                                                                         *)
(* Data conventions                                                        *)
(*   - a Python str is a sequence of one-character strings, so that        *)
(*     lower(), the "in" substring test and re.search are computed;        *)
(*   - Python None is the value None below, distinct from every str;       *)
(*   - a Python dict is a function whose DOMAIN is the set of its keys;    *)
(*     dict keys and pattern names are TLA+ strings.                       *)
(***************************************************************************)
EXTENDS Integers, Sequences, FiniteSets, TLC

VARIABLES
    pattern,      \* SchemaAnalytics.pattern
    params,       \* SchemaAnalytics.params
    ret,          \* outcome of the last generate_sql / run_dbt call
    dbt_calls,    \* child-process invocations of dbt made so far
    dbt_argv,     \* arguments of the last dbt invocation
    dbt_result,   \* the CompletedProcess of the last dbt invocation
    artifact,     \* text of target/compiled/dbt_milkyway/models/<pattern>.sql
    artifact_read,  \* path of the compiled file the last call opened
    warehouse,    \* what get_table_schema returns for the table the user names
    conversation_history,   \* AnalyticsAgent.conversation_history
    memory,       \* AgentMemory.memory
    memory_file,  \* contents of .agent_memory.json
    response,     \* what the last process_message call returned
    now,          \* datetime.now(), counted in add_fact calls
    mem_ret,      \* outcome of the last direct AgentMemory call
    is_llm_enabled,   \* AnalyticsAgent.is_llm_enabled
    pc,           \* "llm" while process_message waits in messages.create
    messages,     \* the message list of the last messages.create call
    llm_calls,    \* messages.create calls made so far
    requested,    \* ids of the tool_use blocks received in this call
    dispatched,   \* ids handed to _execute_tool in this call, in order
    agent_ret     \* how the last process_message call ended

vars == <<pattern, params, ret, dbt_calls, dbt_argv, dbt_result, artifact,
          artifact_read, warehouse, conversation_history,
          memory, memory_file, response, now, mem_ret, is_llm_enabled, pc,
          messages, llm_calls, requested, dispatched, agent_ret>>

coreVars == <<pattern, params, ret, dbt_calls, dbt_argv, dbt_result, artifact,
              artifact_read>>
llmVars == <<is_llm_enabled, pc, messages, llm_calls, requested, dispatched,
            agent_ret>>
agentVars == <<warehouse, conversation_history, memory, memory_file, response,
               now, mem_ret, is_llm_enabled, pc, messages, llm_calls,
               requested, dispatched, agent_ret>>

(***************************************************************************)
(* Python values                                                           *)
(***************************************************************************)
None == <<"None">>

\* None where the other values are dicts (TLC compares records with records)
NoneDict == [None |-> TRUE]

\* bool(v) for v a str or None
Truthy(v) == v # None /\ v # <<>>

s_v == <<"v">>
s_MONTH == <<"M", "O", "N", "T", "H">>
s_DAY == <<"D", "A", "Y">>
s_count == <<"c", "o", "u", "n", "t">>
s_sum == <<"s", "u", "m">>
s_amount == <<"a", "m", "o", "u", "n", "t">>
s_today_value == <<"t", "o", "d", "a", "y", "_", "v", "a", "l", "u", "e">>
s_cumulative_value ==
    <<"c", "u", "m", "u", "l", "a", "t", "i", "v", "e", "_", "v", "a", "l", "u", "e">>
s_my_today == <<"t">>
s_my_cumulative == <<"c">>

(***************************************************************************)
(* core.py : SchemaAnalytics._build_vars                                   *)
(***************************************************************************)
KnownPatterns == {"growth_accounting", "retention", "cumulative_snapshot"}

\* the keys read with self.params[...], in the order the dict literal reads them
RequiredKeys(p) ==
    IF p = "growth_accounting"
    THEN <<"activity_table", "activity_customer_id", "activity_timestamp">>
    ELSE IF p = "retention"
    THEN <<"source_table", "customer_id", "activity_timestamp">>
    ELSE IF p = "cumulative_snapshot"
    THEN <<"snapshot_table", "fact_table", "key_column", "period_column",
           "prev_period", "curr_period">>
    ELSE <<>>

Range(s) == {s[i] : i \in DOMAIN s}

\* dict.get(key, default)
Get(d, k, default) == IF k \in DOMAIN d THEN d[k] ELSE default

\* d[k] of a dict literal: the index of the first subscript that raises
\* KeyError, 0 when every subscript succeeds
FirstMissing(d, keys) ==
    IF \E i \in DOMAIN keys : keys[i] \notin DOMAIN d
    THEN CHOOSE i \in DOMAIN keys :
            /\ keys[i] \notin DOMAIN d
            /\ \A j \in 1..(i - 1) : keys[j] \in DOMAIN d
    ELSE 0

\* self.params[k], evaluated only where it does not raise
Subscript(d, k) == d[k]

Ok(payload, order) == [kind |-> "ok", key |-> "", payload |-> payload, order |-> order]

KeyError_Unnamed(k) == [kind |-> "KeyError", key |-> "", payload |-> <<>>, order |-> <<>>]

\* KeyError(k): the exception's argument is the missing key
KeyError(k) == [kind |-> "KeyError", key |-> k, payload |-> <<>>, order |-> <<>>]

\* else: raise ValueError(f"Unknown pattern: {self.pattern}")
UnknownPattern_Silent(p) == Ok(<<>>, <<>>)

UnknownPattern(p) == [kind |-> "ValueError", key |-> p, payload |-> <<>>, order |-> <<>>]

\* the dict literal's required part: [k |-> self.params[k]]
RequiredPart(d, p) == [k \in Range(RequiredKeys(p)) |-> Subscript(d, k)]

GrowthActivation(d) ==
    IF Truthy(Get(d, "first_activation_table", None))
    THEN [first_activation_table |-> d["first_activation_table"],
          first_activation_customer_id |-> Get(d, "first_activation_customer_id", None),
          first_activation_timestamp |-> Get(d, "first_activation_timestamp", None)]
    ELSE <<>>

GrowthDateSpine(d) ==
    IF Truthy(Get(d, "date_spine_table", None))
    THEN [date_spine_table |-> d["date_spine_table"],
          date_spine_column |-> Get(d, "date_spine_column", None)]
    ELSE <<>>

ActivationKeys ==
    <<"first_activation_table", "first_activation_customer_id",
      "first_activation_timestamp">>

DateSpineKeys == <<"date_spine_table", "date_spine_column">>

GrowthPayload(d) ==
    RequiredPart(d, "growth_accounting")
        @@ [time_grain |-> Get(d, "time_grain", s_MONTH)]
        @@ GrowthActivation(d)
        @@ GrowthDateSpine(d)

RetentionPayload(d) == RequiredPart(d, "retention")

CumulativeOptional(d) ==
    [metric_type |-> Get(d, "metric_type", s_count),
     metric_column |-> Get(d, "metric_column", None),
     today_col_name |-> Get(d, "today_col_name", s_today_value),
     cumulative_col_name |-> Get(d, "cumulative_col_name", s_cumulative_value)]

CumulativePayload(d) == RequiredPart(d, "cumulative_snapshot") @@ CumulativeOptional(d)

\* insertion order of the payload dict, which json.dumps follows
KeyOrder(p) ==
    IF p = "growth_accounting"
    THEN RequiredKeys(p) \o <<"time_grain">> \o ActivationKeys \o DateSpineKeys
    ELSE IF p = "cumulative_snapshot"
    THEN RequiredKeys(p)
            \o <<"metric_type", "metric_column", "today_col_name", "cumulative_col_name">>
    ELSE RequiredKeys(p)

\* the payload dict of _build_vars before json.dumps, or the exception raised
BuildPayload(p, d) ==
    IF p \notin KnownPatterns
    THEN UnknownPattern(p)
    ELSE LET miss == FirstMissing(d, RequiredKeys(p))
         IN IF miss # 0
            THEN KeyError(RequiredKeys(p)[miss])
            ELSE IF p = "growth_accounting"
            THEN Ok(GrowthPayload(d), KeyOrder(p))
            ELSE IF p = "retention"
            THEN Ok(RetentionPayload(d), KeyOrder(p))
            ELSE Ok(CumulativePayload(d), KeyOrder(p))

\* json.dumps of one value: None becomes the token null, a str a JSON string
JsonValue(v) == IF v = None THEN <<"null">> ELSE <<"string", v>>

\* json.dumps(payload): the members of the JSON object, in insertion order
JsonDumps(payload, order) ==
    LET present == SelectSeq(order, LAMBDA k : k \in DOMAIN payload)
    IN [i \in DOMAIN present |-> <<present[i], JsonValue(payload[present[i]])>>]

\* _build_vars: the --vars string, or the exception
BuildVars(p, d) ==
    LET r == BuildPayload(p, d)
    IN IF r.kind = "ok"
       THEN [kind |-> "ok", key |-> "", json |-> JsonDumps(r.payload, r.order)]
       ELSE [kind |-> r.kind, key |-> r.key, json |-> <<>>]

(***************************************************************************)
(* Bounded inputs of the bridge                                            *)
(***************************************************************************)
MaxCalls == 2

\* the legacy name "cumulative" stands for every name outside the enumeration
PatternNames == KnownPatterns \cup {"cumulative"}

OptionalKeys(p) ==
    IF p = "growth_accounting"
    THEN <<"time_grain">> \o ActivationKeys \o DateSpineKeys
    ELSE IF p = "cumulative_snapshot"
    THEN <<"metric_type", "metric_column", "today_col_name", "cumulative_col_name">>
    ELSE <<>>

\* the values a key takes when it is in the mapping (app.py passes None for
\* an unchecked optional group and "" for an emptied text box)
ValueDomain(k) ==
    IF k = "time_grain" THEN {s_DAY}
    ELSE IF k \in {"first_activation_table", "date_spine_table"} THEN {None, <<>>, s_v}
    ELSE IF k = "metric_type" THEN {s_count, s_sum}
    ELSE IF k = "metric_column" THEN {None, s_amount}
    ELSE IF k = "today_col_name" THEN {s_my_today}
    ELSE IF k = "cumulative_col_name" THEN {s_my_cumulative}
    ELSE {None, s_v}

\* every mapping over a subset of keys, each present key in its ValueDomain
RECURSIVE Mappings(_)
Mappings(keys) ==
    IF keys = <<>>
    THEN {<<>>}
    ELSE LET rest == Mappings(Tail(keys))
         IN rest \cup {(Head(keys) :> v) @@ r : r \in rest, v \in ValueDomain(Head(keys))}

ParamSpace(p) ==
    IF p \in KnownPatterns
    THEN Mappings(RequiredKeys(p) \o OptionalKeys(p))
    ELSE Mappings(RequiredKeys("retention"))

ExitCodes == {0, 1}
StderrTexts == {"", "Compilation Error"}
StdoutTexts == {"Completed successfully"}
SqlTexts == {"select 1", "select 2"}

NoRet ==
    [call |-> "none", kind |-> "none", key |-> "", text |-> "",
     returncode |-> 0, stdout |-> "", stderr |-> ""]

Raised(call, kind, key, text) ==
    [call |-> call, kind |-> kind, key |-> key, text |-> text,
     returncode |-> 0, stdout |-> "", stderr |-> ""]

Returned(call, text, rc, out, err) ==
    [call |-> call, kind |-> "return", key |-> "", text |-> text,
     returncode |-> rc, stdout |-> out, stderr |-> err]

NoArgv == [mode |-> "none", models |-> "", vars |-> <<>>]

\* subprocess.run(["dbt", mode, ..., "--models", self.pattern, "--vars", vars_str])
Argv(mode, p, vars_str) == [mode |-> mode, models |-> p, vars |-> vars_str]

NoResult == [returncode |-> 0, stdout |-> "", stderr |-> ""]

\* subprocess.run(..., capture_output=True, text=True)
Completed(rc, out, err) == [returncode |-> rc, stdout |-> out, stderr |-> err]

(***************************************************************************)
(* core.py : SchemaAnalytics.generate_sql                                  *)
(***************************************************************************)
NoPath == <<>>

\* os.path.join(dbt_project_dir, "target", "compiled", "dbt_milkyway",
\*              "models", f"{self.pattern}.sql")
CompiledPath(p) == <<"target", "compiled", "dbt_milkyway", "models", p, ".sql">>

\* the compiled file is opened only past `if result.returncode != 0: raise`
OpenedPath(result, p) ==
    IF result.returncode # 0 THEN NoPath ELSE CompiledPath(p)

CompileOutcome_IgnoreExit(result, file_text) ==
    Returned("generate_sql", file_text, 0, "", "")

\* raise RuntimeError(result.stderr), or return f.read()
CompileOutcome(result, file_text) ==
    IF result.returncode # 0
    THEN Raised("generate_sql", "RuntimeError", "", result.stderr)
    ELSE Returned("generate_sql", file_text, 0, "", "")

\* a successful dbt compile writes the compiled file, a failed one leaves it
GenerateSql ==
    /\ dbt_calls < MaxCalls
    /\ LET v == BuildVars(pattern, params)
       IN IF v.kind # "ok"
          THEN /\ ret' = Raised("generate_sql", v.kind, v.key, "")
               /\ artifact_read' = NoPath
               /\ UNCHANGED <<dbt_calls, dbt_argv, dbt_result, artifact>>
          ELSE \E rc \in ExitCodes, err \in StderrTexts, sql \in SqlTexts :
                 /\ dbt_calls' = dbt_calls + 1
                 /\ dbt_argv' = Argv("compile", pattern, v.json)
                 /\ dbt_result' = Completed(rc, "", err)
                 /\ artifact' = IF rc = 0 THEN sql ELSE artifact
                 /\ artifact_read' = OpenedPath(dbt_result', pattern)
                 /\ ret' = CompileOutcome(dbt_result', artifact')
    /\ UNCHANGED <<pattern, params>>
    /\ UNCHANGED agentVars

(***************************************************************************)
(* core.py : SchemaAnalytics.run_dbt                                       *)
(***************************************************************************)
RunOutcome_Check(result) ==
    IF result.returncode # 0
    THEN Raised("run_dbt", "RuntimeError", "", result.stderr)
    ELSE Returned("run_dbt", "", result.returncode, result.stdout, result.stderr)

\* return result
RunOutcome(result) ==
    Returned("run_dbt", "", result.returncode, result.stdout, result.stderr)

RunDbt ==
    /\ dbt_calls < MaxCalls
    /\ LET v == BuildVars(pattern, params)
       IN IF v.kind # "ok"
          THEN /\ ret' = Raised("run_dbt", v.kind, v.key, "")
               /\ UNCHANGED <<dbt_calls, dbt_argv, dbt_result>>
          ELSE \E rc \in ExitCodes, out \in StdoutTexts, err \in StderrTexts :
                 /\ dbt_calls' = dbt_calls + 1
                 /\ dbt_argv' = Argv("run", pattern, v.json)
                 /\ dbt_result' = Completed(rc, out, err)
                 /\ ret' = RunOutcome(dbt_result')
    /\ artifact_read' = NoPath
    /\ UNCHANGED <<pattern, params, artifact>>
    /\ UNCHANGED agentVars

(***************************************************************************)
(* Python str operations                                                   *)
(***************************************************************************)
UpperLetters ==
    <<"A", "B", "C", "D", "E", "F", "G", "H", "I", "J", "K", "L", "M",
      "N", "O", "P", "Q", "R", "S", "T", "U", "V", "W", "X", "Y", "Z">>

LowerLetters ==
    <<"a", "b", "c", "d", "e", "f", "g", "h", "i", "j", "k", "l", "m",
      "n", "o", "p", "q", "r", "s", "t", "u", "v", "w", "x", "y", "z">>

Digits == {"0", "1", "2", "3", "4", "5", "6", "7", "8", "9"}

LowerChar(c) ==
    IF c \in Range(UpperLetters)
    THEN LowerLetters[CHOOSE i \in DOMAIN UpperLetters : UpperLetters[i] = c]
    ELSE c

\* str.lower()
Lower(s) == [i \in DOMAIN s |-> LowerChar(s[i])]

\* needle in hay
Contains(hay, needle) ==
    \E i \in 0..(Len(hay) - Len(needle)) : SubSeq(hay, i + 1, i + Len(needle)) = needle

\* any(w in s for w in words)
ContainsAny(s, words) == \E i \in DOMAIN words : Contains(s, words[i])

\* the regular expression class \w
WordChar(c) == c \in Range(UpperLetters) \cup Range(LowerLetters) \cup Digits \cup {"_"}

\* the last index of the run of \w characters of s that position i is in
RunEnd(s, i) ==
    CHOOSE j \in i..Len(s) :
        /\ \A k \in i..j : WordChar(s[k])
        /\ (j = Len(s) \/ ~WordChar(s[j + 1]))

\* where (\w+)\.(\w+) can match starting at i: \w+ is greedy and "." is not
\* a \w character, so the first group ends where the run of i ends
MatchesAt(s, i) ==
    /\ WordChar(s[i])
    /\ LET j == RunEnd(s, i)
       IN j + 2 <= Len(s) /\ s[j + 1] = "." /\ WordChar(s[j + 2])

\* re.search(r'(\w+)\.(\w+)', message): the leftmost match's groups, or None
TableMatch(s) ==
    IF \E i \in DOMAIN s : MatchesAt(s, i)
    THEN LET i == CHOOSE i \in DOMAIN s :
                    MatchesAt(s, i) /\ \A k \in 1..(i - 1) : ~MatchesAt(s, k)
             j == RunEnd(s, i)
         IN [dataset |-> SubSeq(s, i, j), table |-> SubSeq(s, j + 2, RunEnd(s, j + 2))]
    ELSE NoneDict

\* texts built by f-strings: a sequence of parts, literal text or an
\* interpolated value; every literal is non-empty, so a text is "" exactly
\* when it is <<>>
Lit(t) == <<"lit", t>>
Val(v) == <<"val", v>>

(***************************************************************************)
(* agent.py : AgentMemory                                                  *)
(***************************************************************************)
RecentTablesCap == 10

\* _load's default structure; recent_queries is never read or written again
EmptyMemory == [preferences |-> <<>>, recent_tables |-> <<>>, facts |-> <<>>]

\* table in self.memory["recent_tables"]
InList(x, list) == \E i \in DOMAIN list : list[i] = x

\* list[:n]
Prefix(list, n) == SubSeq(list, 1, IF Len(list) < n THEN Len(list) ELSE n)

\* add_recent_table: the memory afterwards
AddRecentTable(m, table) ==
    IF ~InList(table, m.recent_tables)
    THEN [m EXCEPT !.recent_tables = Prefix(<<table>> \o @, RecentTablesCap)]
    ELSE m

\* json.dump of one fact; the timestamp is an isoformat string
JsonFact(f) == [fact |-> JsonValue(f.fact), timestamp |-> <<"string", f.timestamp>>]

\* save: json.dump(self.memory, f), the document written to the file
SaveDoc(m) ==
    [preferences |-> [k \in DOMAIN m.preferences |-> JsonValue(m.preferences[k])],
     recent_tables |-> [i \in DOMAIN m.recent_tables |-> JsonValue(m.recent_tables[i])],
     facts |-> [i \in DOMAIN m.facts |-> JsonFact(m.facts[i])]]

\* json.load of one value
ParseValue(j) == IF j = <<"null">> THEN None ELSE j[2]

ParseFact(j) == [fact |-> ParseValue(j.fact), timestamp |-> j.timestamp[2]]

\* json.load(f) of a document that parses
ParseDoc(doc) ==
    [preferences |-> [k \in DOMAIN doc.preferences |-> ParseValue(doc.preferences[k])],
     recent_tables |-> [i \in DOMAIN doc.recent_tables |-> ParseValue(doc.recent_tables[i])],
     facts |-> [i \in DOMAIN doc.facts |-> ParseFact(doc.facts[i])]]

\* a memory file whose content json.load rejects
Corrupt == [corrupt |-> TRUE]

Load_NoDefault(file) == IF file \in {NoneDict, Corrupt} THEN <<>> ELSE ParseDoc(file)

\* _load: the file absent (NoneDict), unparseable, or a document
Load(file) ==
    IF file = NoneDict THEN EmptyMemory
    ELSE IF file = Corrupt THEN EmptyMemory
    ELSE ParseDoc(file)

\* add_recent_table: the file afterwards (save runs only when the table is new)
AddRecentTableFile(m, file, table) ==
    IF ~InList(table, m.recent_tables) THEN SaveDoc(AddRecentTable(m, table)) ELSE file

\* add_preference: the memory afterwards
AddPreference(m, key, value) ==
    [m EXCEPT !.preferences = (key :> value) @@ @]

AddPreferenceFile(m, file, key, value) == SaveDoc(AddPreference(m, key, value))

FactsCap == 20

Suffix_KeepAll(list, n) == list

\* list[-n:]
Suffix(list, n) == SubSeq(list, IF Len(list) > n THEN Len(list) - n + 1 ELSE 1, Len(list))

\* add_fact at time t: the memory afterwards
AddFact(m, fact, t) ==
    [m EXCEPT !.facts = Suffix(Append(@, [fact |-> fact, timestamp |-> t]), FactsCap)]

AddFactFile_NoSave(m, file, fact, t) == file

AddFactFile(m, file, fact, t) == SaveDoc(AddFact(m, fact, t))

\* get_context_summary's text
ContextSummary(m) ==
    LET parts ==
            (IF DOMAIN m.preferences # {}
             THEN <<<<Lit("User preferences: "), Val(m.preferences)>>>> ELSE <<>>)
            \o (IF m.recent_tables # <<>>
                THEN <<<<Lit("Recently used tables: "), Val(Prefix(m.recent_tables, 5))>>>>
                ELSE <<>>)
            \o (IF m.facts # <<>>
                THEN <<<<Lit("Known facts: "), Val(Suffix(m.facts, 5))>>>> ELSE <<>>)
    IN IF parts # <<>> THEN parts ELSE <<<<Lit("No prior context.")>>>>

(***************************************************************************)
(* agent.py : AgentTools                                                   *)
(***************************************************************************)
s_dot == <<".">>

\* f"{dataset}.{table}"
FullName(dataset, table) == dataset \o s_dot \o table

\* configure_growth_accounting's returned config
GrowthConfig(activity_table, customer_id_column, timestamp_column, time_grain) ==
    [pattern |-> "growth_accounting",
     activity_table |-> activity_table,
     activity_customer_id |-> customer_id_column,
     activity_timestamp |-> timestamp_column,
     time_grain |-> time_grain]

(***************************************************************************)
(* agent.py : AnalyticsAgent._rule_based_response                          *)
(***************************************************************************)
s_list == <<"l", "i", "s", "t">>
s_explore == <<"e", "x", "p", "l", "o", "r", "e">>
s_what_tables == <<"w", "h", "a", "t", " ", "t", "a", "b", "l", "e", "s">>
s_datasets == <<"d", "a", "t", "a", "s", "e", "t", "s">>
s_help == <<"h", "e", "l", "p">>
s_how == <<"h", "o", "w">>
s_what_can == <<"w", "h", "a", "t", " ", "c", "a", "n">>
s_user_id == <<"u", "s", "e", "r", "_", "i", "d">>
s_customer_id == <<"c", "u", "s", "t", "o", "m", "e", "r", "_", "i", "d">>
s_id == <<"i", "d">>
s_sessions == <<"s", "e", "s", "s", "i", "o", "n", "s">>

ExploreWords == <<s_list, s_explore, s_what_tables, s_datasets>>

HelpWords == <<s_help, s_how, s_what_can>>

IdPatterns == <<s_user_id, s_customer_id, s_id>>

DateTypes == {"TIMESTAMP", "DATETIME", "DATE"}

\* not customer_id and any(x in name_lower for x in [...])
TakesCustomerId(customer_id, col) ==
    ~Truthy(customer_id) /\ ContainsAny(Lower(col.name), IdPatterns)

\* not timestamp and col["type"] in [...]
TakesTimestamp(timestamp, col) == ~Truthy(timestamp) /\ col.type \in DateTypes

\* for col in schema: ..., from column i on
RECURSIVE DetectFrom(_, _, _, _)
DetectFrom(schema, i, customer_id, timestamp) ==
    IF i > Len(schema)
    THEN [customer_id |-> customer_id, timestamp |-> timestamp]
    ELSE DetectFrom(schema, i + 1,
            IF TakesCustomerId(customer_id, schema[i]) THEN schema[i].name ELSE customer_id,
            IF TakesTimestamp(timestamp, schema[i]) THEN schema[i].name ELSE timestamp)

Detect(schema) == DetectFrom(schema, 1, None, None)

BothDetected_Either(customer_id, timestamp) == Truthy(customer_id) \/ Truthy(timestamp)

\* if customer_id and timestamp:
BothDetected(customer_id, timestamp) == Truthy(customer_id) /\ Truthy(timestamp)

\* which branch of _rule_based_response a message takes
Branch(message) ==
    IF ContainsAny(Lower(message), ExploreWords) THEN "explore"
    ELSE IF ContainsAny(Lower(message), HelpWords) THEN "help"
    ELSE IF TableMatch(message) # NoneDict THEN "configure"
    ELSE "unspecified"

ConfiguredText(dataset, table, customer_id, timestamp) ==
    <<Lit("**Configured growth_accounting:** - Table: "), Val(FullName(dataset, table)),
      Lit(" - Customer ID: "), Val(customer_id),
      Lit(" - Timestamp: "), Val(timestamp),
      Lit(" - Time grain: MONTH. Click **Apply Configuration** to fill the form.")>>

\* the explore branch's response, given what list_datasets() and
\* list_tables("sessions") return
ExploreResponse(result, tables) ==
    IF ~result.success
    THEN [text |-> <<>>, suggested_config |-> NoneDict]
    ELSE IF ~tables.success
    THEN [text |-> <<Lit("**Datasets:** "), Val(result.datasets), Lit(" ")>>,
          suggested_config |-> NoneDict]
    ELSE [text |-> <<Lit("**Datasets:** "), Val(result.datasets), Lit(" "),
                     Lit("**Tables in 'sessions':** "), Val(tables.tables)>>,
          suggested_config |-> NoneDict]

HelpResponse ==
    [text |-> <<Lit("**I can help you with:** ...")>>, suggested_config |-> NoneDict]

\* the configure branch's response, given what get_table_schema returns
ConfigureResponse(m, schema_result) ==
    IF ~schema_result.success
    THEN [text |-> <<Lit("Couldn't access table: "), Val(schema_result.error)>>,
          suggested_config |-> NoneDict]
    ELSE LET schema == schema_result.schema
             d == Detect(schema)
         IN IF BothDetected(d.customer_id, d.timestamp)
            THEN [text |-> ConfiguredText(m.dataset, m.table, d.customer_id, d.timestamp),
                  suggested_config |->
                      GrowthConfig(FullName(m.dataset, m.table), d.customer_id,
                                   d.timestamp, s_MONTH)]
            ELSE [text |-> <<Lit("Found table but couldn't auto-detect columns. Schema: "),
                             Val(schema)>>,
                  suggested_config |-> NoneDict]

UnspecifiedResponse ==
    [text |-> <<Lit("Please specify a table (e.g., 'sessions.user_activity') or ask for help.")>>,
     suggested_config |-> NoneDict]

\* the memory after the configure branch: get_table_schema records the table
\* when the lookup succeeds, configure_growth_accounting records it again
ConfigureMemory(mem, m, schema_result) ==
    IF ~schema_result.success
    THEN mem
    ELSE LET seen == AddRecentTable(mem, FullName(m.dataset, m.table))
             d == Detect(schema_result.schema)
         IN IF BothDetected(d.customer_id, d.timestamp)
            THEN AddRecentTable(seen, FullName(m.dataset, m.table))
            ELSE seen

ConfigureFile(mem, file, m, schema_result) ==
    IF ~schema_result.success
    THEN file
    ELSE LET seen == AddRecentTable(mem, FullName(m.dataset, m.table))
             seenFile == AddRecentTableFile(mem, file, FullName(m.dataset, m.table))
             d == Detect(schema_result.schema)
         IN IF BothDetected(d.customer_id, d.timestamp)
            THEN AddRecentTableFile(seen, seenFile, FullName(m.dataset, m.table))
            ELSE seenFile

(***************************************************************************)
(* Bounded inputs of the agent                                             *)
(***************************************************************************)
MaxCols == 3
MaxHistory == 1

s_Customer_ID == <<"C", "u", "s", "t", "o", "m", "e", "r", "_", "I", "D">>
s_event_time == <<"e", "v", "e", "n", "t", "_", "t", "i", "m", "e">>
s_created == <<"c", "r", "e", "a", "t", "e", "d">>
s_birthday == <<"b", "i", "r", "t", "h", "d", "a", "y">>

Col(name, type) == [name |-> name, type |-> type]

Columns ==
    {Col(s_id, "STRING"), Col(s_user_id, "STRING"), Col(s_Customer_ID, "INTEGER"),
     Col(s_event_time, "TIMESTAMP"), Col(s_event_time, "STRING"),
     Col(s_birthday, "DATE")}

Schemas == UNION {[1..n -> Columns] : n \in 0..MaxCols}

m_list == <<"L", "i", "s", "t">>
m_help == <<"h", "e", "l", "p">>
m_go_table == <<"g", "o", " ", "a", ".", "b", "!">>
m_hi == <<"h", "i">>

Messages == {m_list, m_help, m_go_table, m_hi}

\* what the AgentTools calls return: {"success": True, ...} or
\* {"success": False, "error": str(e)} when the BigQuery client raises
Failure == [success |-> FALSE, error |-> "404 Not found"]

SchemaResults == {[success |-> TRUE, schema |-> s] : s \in Schemas} \cup {Failure}

DatasetResults ==
    {[success |-> TRUE, datasets |-> d] : d \in {<<>>, <<s_sessions>>}} \cup {Failure}

TableResults == {[success |-> TRUE, tables |-> <<s_user_id>>], Failure}

(***************************************************************************)
(* agent.py : AnalyticsAgent.process_message without an LLM client         *)
(***************************************************************************)
\* _rule_based_response(message): the response, given what list_datasets,
\* list_tables and get_table_schema return
RuleBasedResponse(message, result, tables, schema_result) ==
    LET b == Branch(message)
    IN IF b = "explore" THEN ExploreResponse(result, tables)
       ELSE IF b = "help" THEN HelpResponse
       ELSE IF b = "configure"
       THEN ConfigureResponse(TableMatch(message), schema_result)
       ELSE UnspecifiedResponse

\* the memory and the memory file after _rule_based_response(message)
RuleBasedMemory(message, mem, schema_result) ==
    IF Branch(message) = "configure"
    THEN ConfigureMemory(mem, TableMatch(message), schema_result)
    ELSE mem

RuleBasedFile(message, mem, file, schema_result) ==
    IF Branch(message) = "configure"
    THEN ConfigureFile(mem, file, TableMatch(message), schema_result)
    ELSE file

ProcessMessage ==
    /\ ~is_llm_enabled
    /\ Len(conversation_history) < MaxHistory
    /\ \E message \in Messages :
         /\ conversation_history' =
                Append(conversation_history, [role |-> "user", content |-> message])
         /\ \E result \in IF Branch(message) = "explore"
                           THEN DatasetResults ELSE {Failure},
               tables \in IF Branch(message) = "explore"
                           THEN TableResults ELSE {Failure} :
                response' = RuleBasedResponse(message, result, tables, warehouse)
         /\ memory' = RuleBasedMemory(message, memory, warehouse)
         /\ memory_file' = RuleBasedFile(message, memory, memory_file, warehouse)
    /\ UNCHANGED <<warehouse, now, mem_ret>>
    /\ UNCHANGED llmVars
    /\ UNCHANGED coreVars

NoMemRet == [call |-> "none", kind |-> "none", arg |-> <<>>, text |-> <<>>]

\* a freshly constructed AnalyticsAgent over an empty memory file
NoAgentRet == [kind |-> "none", caught |-> "none"]

\* process_message returned; caught is the exception its except branch handled
AgentReturned(caught) == [kind |-> "return", caught |-> caught]

\* no LLM client: ANTHROPIC_API_KEY unset, or the anthropic package missing
LlmIdle ==
    /\ is_llm_enabled = FALSE
    /\ pc = "idle"
    /\ messages = <<>>
    /\ llm_calls = 0
    /\ requested = <<>>
    /\ dispatched = <<>>
    /\ agent_ret = NoAgentRet

AgentIdle ==
    /\ warehouse = Failure
    /\ conversation_history = <<>>
    /\ memory = EmptyMemory
    /\ memory_file = NoneDict
    /\ response = NoneDict
    /\ now = 0
    /\ mem_ret = NoMemRet
    /\ LlmIdle

\* SchemaAnalytics(pattern, params), as build_sa constructs it
CoreInit ==
    /\ pattern \in PatternNames
    /\ params \in ParamSpace(pattern)
    /\ ret = NoRet
    /\ dbt_calls = 0
    /\ dbt_argv = NoArgv
    /\ dbt_result = NoResult
    /\ artifact = ""
    /\ artifact_read = NoPath
    /\ AgentIdle

CoreNext == GenerateSql \/ RunDbt

CoreSpec == CoreInit /\ [][CoreNext]_vars

\* no SchemaAnalytics call in flight
CoreIdle ==
    /\ pattern = "growth_accounting"
    /\ params = <<>>
    /\ ret = NoRet
    /\ dbt_calls = 0
    /\ dbt_argv = NoArgv
    /\ dbt_result = NoResult
    /\ artifact = ""
    /\ artifact_read = NoPath

\* AnalyticsAgent() without an API key, no memory file on disk; the table
\* the user names has any schema, or cannot be looked up
AgentInit ==
    /\ warehouse \in SchemaResults
    /\ conversation_history = <<>>
    /\ memory = EmptyMemory
    /\ memory_file = NoneDict
    /\ response = NoneDict
    /\ now = 0
    /\ mem_ret = NoMemRet
    /\ LlmIdle
    /\ CoreIdle

AgentNext == ProcessMessage

AgentSpec == AgentInit /\ [][AgentNext]_vars

(***************************************************************************)
(* agent.py : AgentMemory, called directly                                 *)
(***************************************************************************)
MaxFactCalls == 21

t_ab == <<"a", ".", "b">>
t_cd == <<"c", ".", "d">>
s_x == <<"x">>

Tables == {t_ab, t_cd}
PrefKeys == {"default_time_grain"}
PrefValues == {s_DAY, s_MONTH}
FactTexts == {s_x}

\* the memory files a process may find at start
InitialFiles ==
    {NoneDict, Corrupt, SaveDoc(EmptyMemory),
     SaveDoc([preferences |-> [default_time_grain |-> s_DAY],
              recent_tables |-> <<t_ab>>, facts |-> <<>>])}

MemOk(call, arg, text) == [call |-> call, kind |-> "ok", arg |-> arg, text |-> text]

\* self.memory[key] on a memory without that key
MemKeyError(call, arg, key) == [call |-> call, kind |-> "KeyError", arg |-> arg, text |-> key]

MemUnchanged ==
    /\ UNCHANGED <<warehouse, conversation_history, response>>
    /\ UNCHANGED llmVars
    /\ UNCHANGED coreVars

MemAddPreference ==
    /\ \E key \in PrefKeys, value \in PrefValues :
         IF "preferences" \in DOMAIN memory
         THEN /\ memory' = AddPreference(memory, key, value)
              /\ memory_file' = AddPreferenceFile(memory, memory_file, key, value)
              /\ mem_ret' = MemOk("add_preference", value, <<>>)
         ELSE /\ mem_ret' = MemKeyError("add_preference", value, "preferences")
              /\ UNCHANGED <<memory, memory_file>>
    /\ UNCHANGED now
    /\ MemUnchanged

MemAddRecentTable ==
    /\ \E table \in Tables :
         IF "recent_tables" \in DOMAIN memory
         THEN /\ memory' = AddRecentTable(memory, table)
              /\ memory_file' = AddRecentTableFile(memory, memory_file, table)
              /\ mem_ret' = MemOk("add_recent_table", table, <<>>)
         ELSE /\ mem_ret' = MemKeyError("add_recent_table", table, "recent_tables")
              /\ UNCHANGED <<memory, memory_file>>
    /\ UNCHANGED now
    /\ MemUnchanged

MemAddFact ==
    /\ now < MaxFactCalls
    /\ now' = now + 1
    /\ \E fact \in FactTexts :
         IF "facts" \in DOMAIN memory
         THEN /\ memory' = AddFact(memory, fact, now')
              /\ memory_file' = AddFactFile(memory, memory_file, fact, now')
              /\ mem_ret' = MemOk("add_fact", fact, <<>>)
         ELSE /\ mem_ret' = MemKeyError("add_fact", fact, "facts")
              /\ UNCHANGED <<memory, memory_file>>
    /\ MemUnchanged

MemGetContextSummary ==
    /\ mem_ret' =
         IF {"preferences", "recent_tables", "facts"} \subseteq DOMAIN memory
         THEN MemOk("get_context_summary", <<>>, ContextSummary(memory))
         ELSE MemKeyError("get_context_summary", <<>>, "preferences")
    /\ UNCHANGED <<memory, memory_file, now>>
    /\ MemUnchanged

\* AgentMemory() again: the next process start reloads the file
MemReload ==
    /\ memory' = Load(memory_file)
    /\ mem_ret' = MemOk("load", <<>>, <<>>)
    /\ UNCHANGED <<memory_file, now>>
    /\ MemUnchanged

\* AgentMemory(): self.memory = self._load()
MemoryInit ==
    /\ memory_file \in InitialFiles
    /\ memory = Load(memory_file)
    /\ mem_ret = MemOk("load", <<>>, <<>>)
    /\ now = 0
    /\ warehouse = Failure
    /\ conversation_history = <<>>
    /\ response = NoneDict
    /\ LlmIdle
    /\ CoreIdle

MemoryNext ==
    \/ MemAddPreference
    \/ MemAddRecentTable
    \/ MemAddFact
    \/ MemGetContextSummary
    \/ MemReload

MemorySpec == MemoryInit /\ [][MemoryNext]_vars

(***************************************************************************)
(* agent.py : AnalyticsAgent._execute_tool                                 *)
(***************************************************************************)
\* a content block of type tool_use
ToolUse(id, name, input) == [id |-> id, name |-> name, input |-> input]

\* the keys of tool_map the model exercises
ToolMap == {"get_table_schema", "configure_growth_accounting"}

\* the keyword parameters of the AgentTools methods without / with a default
RequiredArgs(name) ==
    IF name = "get_table_schema" THEN {"dataset", "table"}
    ELSE {"activity_table", "customer_id_column", "timestamp_column"}

OptionalArgs(name) ==
    IF name = "configure_growth_accounting" THEN {"time_grain"} ELSE {}

\* self.tools.<name>(**tool_input) binds: otherwise Python raises TypeError
Binds(name, input) ==
    /\ RequiredArgs(name) \subseteq DOMAIN input
    /\ DOMAIN input \subseteq RequiredArgs(name) \cup OptionalArgs(name)

ToolOk(output, mem, file) ==
    [kind |-> "ok", output |-> output, memory |-> mem, file |-> file]

ToolRaised(kind, mem, file) ==
    [kind |-> kind, output |-> NoneDict, memory |-> mem, file |-> file]

ExecuteTool(use, mem, file, schema_result) ==
    IF use.name \notin ToolMap
    THEN ToolOk([error |-> <<Lit("Unknown tool: "), Val(use.name)>>], mem, file)
    ELSE IF ~Binds(use.name, use.input)
    THEN ToolRaised("TypeError", mem, file)
    ELSE IF use.name = "get_table_schema"
    THEN IF schema_result.success
         THEN LET t == FullName(use.input.dataset, use.input.table)
              IN ToolOk(schema_result, AddRecentTable(mem, t),
                        AddRecentTableFile(mem, file, t))
         ELSE ToolOk(schema_result, mem, file)
    ELSE LET t == use.input.activity_table
         IN ToolOk([success |-> TRUE,
                    config |-> GrowthConfig(t, use.input.customer_id_column,
                                            use.input.timestamp_column,
                                            Get(use.input, "time_grain", s_MONTH))],
                   AddRecentTable(mem, t), AddRecentTableFile(mem, file, t))

(***************************************************************************)
(* agent.py : AnalyticsAgent.process_message with an LLM client            *)
(***************************************************************************)
\* response = {"text": "", "suggested_config": None, "tool_results": []}
EmptyResponse == [text |-> <<>>, suggested_config |-> NoneDict, tool_results |-> <<>>]

\* tool_result.get("success")
GetSuccess(output) == "success" \in DOMAIN output /\ output.success

\* json.dumps(tool_result), as the content of a tool_result block
ToolResultBlock(use, output) ==
    [type |-> "tool_result", tool_use_id |-> use.id, content |-> <<"json", output>>]

Round(resp, mem, file) ==
    [response |-> resp, memory |-> mem, file |-> file, tool_results |-> <<>>,
     dispatched |-> <<>>, raised |-> "none"]

Record_NoEntry(st, use, x) ==
    [st EXCEPT
       !.memory = x.memory,
       !.file = x.file,
       !.tool_results = Append(@, ToolResultBlock(use, x.output)),
       !.response.suggested_config =
           IF use.name = "configure_growth_accounting" /\ GetSuccess(x.output)
           THEN x.output.config ELSE @]

\* the body of the for loop after _execute_tool returned: lines 352-365
Record(st, use, x) ==
    [st EXCEPT
       !.memory = x.memory,
       !.file = x.file,
       !.tool_results = Append(@, ToolResultBlock(use, x.output)),
       !.response.tool_results =
           Append(@, [tool |-> use.name, input |-> use.input, output |-> x.output]),
       !.response.suggested_config =
           IF use.name = "configure_growth_accounting" /\ GetSuccess(x.output)
           THEN x.output.config ELSE @]

\* for tool_use in tool_uses: ... ; an exception leaves the loop
RECURSIVE RunTools(_, _, _)
RunTools(tool_uses, st, schema_result) ==
    IF tool_uses = <<>>
    THEN st
    ELSE LET use == Head(tool_uses)
             called == [st EXCEPT !.dispatched = Append(@, use.id)]
             x == ExecuteTool(use, st.memory, st.file, schema_result)
         IN IF x.kind # "ok"
            THEN [called EXCEPT !.raised = x.kind]
            ELSE RunTools(Tail(tool_uses), Record(called, use, x), schema_result)

\* the user_message argument: the entry process_message appended on entry
UserMessage == conversation_history[Len(conversation_history)].content

FallbackNote(e) ==
    <<Lit("Error communicating with LLM: "), Val(e),
      Lit("\n\nFalling back to basic mode.")>>

FallbackText_Replace(e, fallback) == fallback.text

\* response["text"] = f"Error ...{e}...";  response["text"] += "\n\n" + fallback["text"]
FallbackText(e, fallback) == FallbackNote(e) \o <<Lit("\n\n")>> \o fallback.text

\* the except branch, entered with the response and the memory as the try
\* block left them
Fallback(e, resp, mem, file) ==
    LET message == UserMessage
    IN /\ \E result \in IF Branch(message) = "explore"
                         THEN DatasetResults ELSE {Failure},
             tables \in IF Branch(message) = "explore"
                         THEN TableResults ELSE {Failure} :
            LET fallback == RuleBasedResponse(message, result, tables, warehouse)
            IN response' = [resp EXCEPT
                              !.text = FallbackText(e, fallback),
                              !.suggested_config = fallback.suggested_config]
       /\ memory' = RuleBasedMemory(message, mem, warehouse)
       /\ memory_file' = RuleBasedFile(message, mem, file, warehouse)
       /\ pc' = "idle"
       /\ agent_ret' = AgentReturned(e)
       /\ UNCHANGED <<conversation_history, messages, llm_calls>>

(***************************************************************************)
(* Bounded inputs of the LLM loop                                          *)
(***************************************************************************)
MaxLlmCalls == 3

s_a == <<"a">>
s_b == <<"b">>

\* what the model may ask for: a schema lookup, a configuration, a
\* configuration with arguments missing, a tool that tool_map does not have
AskSchema ==
    [name |-> "get_table_schema", input |-> [dataset |-> s_a, table |-> s_b]]

AskConfig ==
    [name |-> "configure_growth_accounting",
     input |-> [activity_table |-> FullName(s_a, s_b),
                customer_id_column |-> s_user_id,
                timestamp_column |-> s_event_time]]

AskConfigShort ==
    [name |-> "configure_growth_accounting",
     input |-> [activity_table |-> FullName(s_a, s_b)]]

AskConfigDay ==
    [name |-> "configure_growth_accounting",
     input |-> [activity_table |-> FullName(s_a, s_b),
                customer_id_column |-> s_id,
                timestamp_column |-> s_event_time,
                time_grain |-> s_DAY]]

AskUnknown == [name |-> "run_query", input |-> [sql |-> "select 1"]]

\* the tool_use blocks of one result, in order
ToolRequests ==
    {<<AskSchema, AskConfig>>, <<AskUnknown>>, <<AskConfig, AskConfigDay>>,
     <<AskConfig, AskConfigShort, AskSchema>>}

ReplyTexts == {<<Lit("Done.")>>}

LlmErrors == {"Connection error."}

LlmMessages == {m_list, m_go_table}

LlmSchemaResults ==
    {[success |-> TRUE,
      schema |-> <<Col(s_user_id, "STRING"), Col(s_event_time, "TIMESTAMP")>>],
     Failure}

(***************************************************************************)
(* process_message, one action per return of messages.create               *)
(***************************************************************************)
\* lines 317-340: up to the first messages.create call
LlmStart ==
    /\ is_llm_enabled
    /\ pc = "idle"
    /\ llm_calls < MaxLlmCalls
    /\ \E message \in LlmMessages :
         conversation_history' =
             Append(conversation_history, [role |-> "user", content |-> message])
    /\ messages' = conversation_history'
    /\ response' = EmptyResponse
    /\ llm_calls' = llm_calls + 1
    /\ requested' = <<>>
    /\ dispatched' = <<>>
    /\ pc' = "llm"
    /\ agent_ret' = NoAgentRet
    /\ UNCHANGED <<warehouse, memory, memory_file, now, mem_ret, is_llm_enabled>>
    /\ UNCHANGED coreVars

\* lines 343-377: a result with stop_reason "tool_use"
LlmToolUse ==
    /\ pc = "llm"
    /\ llm_calls < MaxLlmCalls
    /\ \E req \in ToolRequests :
            LET tool_uses == [i \in DOMAIN req |->
                                 ToolUse(<<llm_calls, i>>, req[i].name, req[i].input)]
                st == RunTools(tool_uses, Round(response, memory, memory_file),
                               warehouse)
            IN /\ requested' = requested \o [i \in DOMAIN req |-> tool_uses[i].id]
               /\ dispatched' = dispatched \o st.dispatched
               /\ IF st.raised # "none"
                  THEN Fallback(st.raised, st.response, st.memory, st.file)
                  ELSE /\ response' = st.response
                       /\ memory' = st.memory
                       /\ memory_file' = st.file
                       /\ messages' = messages \o
                              <<[role |-> "assistant", content |-> tool_uses],
                                [role |-> "user", content |-> st.tool_results]>>
                       /\ llm_calls' = llm_calls + 1
                       /\ UNCHANGED <<conversation_history, pc, agent_ret>>
    /\ UNCHANGED <<warehouse, now, mem_ret, is_llm_enabled>>
    /\ UNCHANGED coreVars

\* lines 380-384 and 392: a result with any other stop_reason
LlmText ==
    /\ pc = "llm"
    /\ \E text \in ReplyTexts :
         /\ response' = [response EXCEPT !.text = text]
         /\ conversation_history' =
                Append(conversation_history, [role |-> "assistant", content |-> text])
    /\ pc' = "idle"
    /\ agent_ret' = AgentReturned("none")
    /\ UNCHANGED <<warehouse, memory, memory_file, now, mem_ret, is_llm_enabled,
                   messages, llm_calls, requested, dispatched>>
    /\ UNCHANGED coreVars

\* lines 386-392: messages.create raises
LlmFails ==
    /\ pc = "llm"
    /\ \E e \in LlmErrors : Fallback(e, response, memory, memory_file)
    /\ UNCHANGED <<warehouse, now, mem_ret, is_llm_enabled, requested, dispatched>>
    /\ UNCHANGED coreVars

\* AnalyticsAgent() with an API key, no memory file on disk
LlmInit ==
    /\ warehouse \in LlmSchemaResults
    /\ conversation_history = <<>>
    /\ memory = EmptyMemory
    /\ memory_file = NoneDict
    /\ response = NoneDict
    /\ now = 0
    /\ mem_ret = NoMemRet
    /\ is_llm_enabled = TRUE
    /\ pc = "idle"
    /\ messages = <<>>
    /\ llm_calls = 0
    /\ requested = <<>>
    /\ dispatched = <<>>
    /\ agent_ret = NoAgentRet
    /\ CoreIdle

LlmReturns == LlmToolUse \/ LlmText \/ LlmFails

LlmNext == LlmStart \/ LlmToolUse \/ LlmText \/ LlmFails

\* messages.create returns or raises: the client call does not hang forever
LlmSpec == LlmInit /\ [][LlmNext]_vars /\ WF_vars(LlmReturns)

(***************************************************************************)
(* Properties of the bridge (CoreSpec)                                     *)
(***************************************************************************)
Required == Range(RequiredKeys(pattern))

\* a call of generate_sql or run_dbt has returned or raised
Called == ret.call # "none"

\* _build_vars returned a payload: dbt was started with it
Resolved == dbt_argv.mode # "none"

\* the keys of the JSON object handed to dbt
JsonKeys == {dbt_argv.vars[i][1] : i \in DOMAIN dbt_argv.vars}

\* key k is in the JSON object, with a value other than null
JsonNonNull(k) ==
    \E i \in DOMAIN dbt_argv.vars :
        dbt_argv.vars[i][1] = k /\ dbt_argv.vars[i][2] # <<"null">>

\* C1: for each of the three patterns, when params lacks exactly one required
\* field, generate_sql and run_dbt fail with an error naming that field, and
\* no payload is produced (dbt is never started).
C1_MissingFieldNamed ==
    \A k \in Required :
        (Called /\ pattern \in KnownPatterns /\ Required \ DOMAIN params = {k})
            => /\ ret.kind = "KeyError"
               /\ ret.key = k
               /\ ~Resolved
               /\ dbt_calls = 0

C1_Witness ==
    /\ Called
    /\ pattern = "cumulative_snapshot"
    /\ Required \ DOMAIN params = {"period_column"}
    /\ ret.kind = "KeyError"

\* C2: whenever resolution returns a payload, every required variable of the
\* pattern is in it with a non-null value (a null required value is an error).
C2_RequiredNonNull == Resolved => \A k \in Required : JsonNonNull(k)

\* every required field is supplied with a non-null value
RequiredSupplied == \A k \in Required : k \in DOMAIN params /\ params[k] # None

GroupFull(keys) == \A i \in DOMAIN keys : JsonNonNull(keys[i])

GroupAbsent(keys) == \A i \in DOMAIN keys : keys[i] \notin JsonKeys

\* C3: for growth_accounting, each optional group (activation, date spine) is
\* in the payload with all its keys non-null, or with none of its keys.
C3_GroupsAllOrNothing ==
    (Resolved /\ pattern = "growth_accounting" /\ RequiredSupplied)
        => /\ GroupFull(ActivationKeys) \/ GroupAbsent(ActivationKeys)
           /\ GroupFull(DateSpineKeys) \/ GroupAbsent(DateSpineKeys)

\* C4: the serialized payload handed to dbt never has a key whose value is
\* null (stated where every required value is non-null, apart from C2).
C4_NoNullSerialized ==
    (Resolved /\ RequiredSupplied) => \A i \in DOMAIN dbt_argv.vars : dbt_argv.vars[i][2] # <<"null">>

\* the optional keys the claim lists as having a default
DefaultedKeys ==
    IF pattern = "growth_accounting" THEN {"time_grain"}
    ELSE IF pattern = "cumulative_snapshot"
    THEN {"metric_type", "today_col_name", "cumulative_col_name"}
    ELSE {}

\* C5: resolving exactly the required fields succeeds, and the payload's key
\* set is exactly the required keys plus the optional keys with a default.
C5_ExactKeySet ==
    (Called /\ pattern \in KnownPatterns /\ DOMAIN params = Required /\ RequiredSupplied)
        => /\ Resolved
           /\ JsonKeys = Required \cup DefaultedKeys

\* C6: with a pattern name outside the enumeration, generate_sql and run_dbt
\* fail with the unknown-pattern error and dbt is never started.
C6_UnknownPatternRejected ==
    (Called /\ pattern \notin KnownPatterns)
        => /\ ret.kind = "ValueError"
           /\ ret.key = pattern
           /\ dbt_calls = 0
           /\ ~Resolved

C6_Witness ==
    /\ pattern \notin KnownPatterns
    /\ ret.call = "run_dbt"
    /\ ret.kind = "ValueError"
    /\ DOMAIN params = Range(RequiredKeys("retention"))

\* C7: for cumulative_snapshot with its required fields, metric_type=sum
\* without a metric_column fails, and metric_type=count (or absent) yields a
\* payload whose metric_column is null.
C7_MetricColumnRule ==
    (Called /\ pattern = "cumulative_snapshot" /\ RequiredSupplied)
        => /\ (Get(params, "metric_type", s_count) = s_sum
                    /\ Get(params, "metric_column", None) = None)
                => (~Resolved /\ ret.kind \notin {"return", "RuntimeError"})
           /\ Get(params, "metric_type", s_count) = s_count
                => (Resolved /\ \E i \in DOMAIN dbt_argv.vars :
                        dbt_argv.vars[i] = <<"metric_column", <<"null">>>>)

\* the last call was generate_sql and it got as far as starting dbt
Compiled == ret.call = "generate_sql" /\ ret.kind \in {"return", "RuntimeError"}

\* C15: generate_sql fails with dbt's stderr, unchanged, when dbt exits
\* nonzero, and then does not open the compiled file; when dbt exits zero it
\* returns the text of the compiled file of its pattern verbatim.  One call
\* starts dbt at most once.
C15_CompileOutcome ==
    /\ [](Compiled =>
            /\ dbt_argv.mode = "compile"
            /\ IF dbt_result.returncode # 0
               THEN /\ ret.kind = "RuntimeError"
                    /\ ret.text = dbt_result.stderr
                    /\ artifact_read = NoPath
               ELSE /\ ret.kind = "return"
                    /\ ret.text = artifact
                    /\ artifact_read = CompiledPath(pattern))
    /\ [][dbt_calls' <= dbt_calls + 1]_vars

\* a failed compile after a successful one: the stale file is left unread
C15_Witness ==
    /\ Compiled
    /\ dbt_result.returncode # 0
    /\ dbt_result.stderr # ""
    /\ artifact # ""
    /\ dbt_calls = 2

\* the last call was run_dbt and it got as far as starting dbt
Ran == ret.call = "run_dbt" /\ ret.kind \in {"return", "RuntimeError"}

\* C16: run_dbt returns dbt's return code, stdout and stderr whatever the exit
\* code, and starts dbt on the same model with the same --vars text that
\* generate_sql uses for the same pattern and params.
C16_RunReturnsOutcome ==
    /\ [](Ran =>
            /\ ret.kind = "return"
            /\ ret.returncode = dbt_result.returncode
            /\ ret.stdout = dbt_result.stdout
            /\ ret.stderr = dbt_result.stderr
            /\ dbt_argv.mode = "run"
            /\ dbt_argv.models = pattern)
    /\ [][(dbt_argv.mode # "none" /\ dbt_argv'.mode # "none")
            => (dbt_argv'.models = dbt_argv.models
                    /\ dbt_argv'.vars = dbt_argv.vars)]_vars

\* a failing run after a compile of the same object
C16_Witness ==
    /\ Ran
    /\ dbt_result.returncode # 0
    /\ dbt_calls = 2

(***************************************************************************)
(* Properties of the rule-based agent (AgentSpec)                          *)
(***************************************************************************)
\* a process_message call has returned
Answered == Len(conversation_history) > 0

LastMessage == conversation_history[Len(conversation_history)].content

\* the last call took the configure branch and the schema lookup succeeded
Looked == Answered /\ Branch(LastMessage) = "configure" /\ warehouse.success

Configured == Answered /\ response.suggested_config # NoneDict

NameHas(col, word) == Contains(Lower(col.name), word)

\* the first column of the schema that satisfies Test
FirstCol(schema, Test(_)) ==
    schema[CHOOSE i \in DOMAIN schema :
                Test(schema[i]) /\ \A j \in 1..(i - 1) : ~Test(schema[j])]

\* the first word of the priority list that some column satisfying Pred matches
BestWord(schema, words, Pred(_)) ==
    words[CHOOSE w \in DOMAIN words :
            /\ \E i \in DOMAIN schema : Pred(schema[i]) /\ NameHas(schema[i], words[w])
            /\ \A v \in 1..(w - 1) :
                  ~\E i \in DOMAIN schema : Pred(schema[i]) /\ NameHas(schema[i], words[v])]

AnyCol(col) == TRUE

IsDateTyped(col) == col.type \in DateTypes

\* selection by pattern priority: the first column matching the
\* highest-priority pattern that matches any column
PriorityCustomerId(schema) ==
    LET w == BestWord(schema, IdPatterns, AnyCol)
    IN FirstCol(schema, LAMBDA col : NameHas(col, w)).name

\* C8: the detected customer id is chosen by pattern priority, not column
\* order: for [id, user_id, event_time] it is user_id.
C8_PatternPriority ==
    Configured =>
        response.suggested_config.activity_customer_id = PriorityCustomerId(warehouse.schema)

s_created_at == <<"c", "r", "e", "a", "t", "e", "d", "_", "a", "t">>
s_timestamp == <<"t", "i", "m", "e", "s", "t", "a", "m", "p">>
s_event_timestamp == <<"e", "v", "e", "n", "t", "_">> \o s_timestamp
s_activity_timestamp == <<"a", "c", "t", "i", "v", "i", "t", "y", "_">> \o s_timestamp
s_date == <<"d", "a", "t", "e">>
s_event_date == <<"e", "v", "e", "n", "t", "_">> \o s_date
s_activity_date == <<"a", "c", "t", "i", "v", "i", "t", "y", "_">> \o s_date
s_time == <<"t", "i", "m", "e">>

\* the listed timestamp substrings, in priority order
TimestampWords ==
    <<s_event_time, s_created_at, s_timestamp, s_event_timestamp, s_activity_timestamp,
      s_created, s_date, s_event_date, s_activity_date, s_time>>

NameMatchedTimestamp(schema) ==
    LET w == BestWord(schema, TimestampWords, IsDateTyped)
    IN FirstCol(schema, LAMBDA col : IsDateTyped(col) /\ NameHas(col, w)).name

\* C9: the detected timestamp column is date-typed; a date-typed column whose
\* name matches a listed substring wins (by list priority) over an earlier
\* date-typed column whose name does not; otherwise the first date-typed
\* column is chosen.
C9_TimestampByName ==
    Configured =>
        LET schema == warehouse.schema
            chosen == response.suggested_config.activity_timestamp
        IN /\ \E i \in DOMAIN schema : schema[i].name = chosen /\ IsDateTyped(schema[i])
           /\ IF \E i \in DOMAIN schema :
                    IsDateTyped(schema[i]) /\ ContainsAny(Lower(schema[i].name), TimestampWords)
              THEN chosen = NameMatchedTimestamp(schema)
              ELSE chosen = FirstCol(schema, IsDateTyped).name

\* C10: with no ID-like column name the customer id is undetected, with no
\* date-typed column the timestamp is; a suggested_config is produced only
\* when both were detected, so it never carries a null activity_customer_id
\* or activity_timestamp.
C10_NoConfigWithoutBoth ==
    /\ Configured
        => /\ Looked
           /\ response.suggested_config.activity_customer_id # None
           /\ response.suggested_config.activity_timestamp # None
    /\ (Looked /\ \A i \in DOMAIN warehouse.schema :
                    ~ContainsAny(Lower(warehouse.schema[i].name), IdPatterns))
        => response.suggested_config = NoneDict
    /\ (Looked /\ \A i \in DOMAIN warehouse.schema : ~IsDateTyped(warehouse.schema[i]))
        => response.suggested_config = NoneDict

C10_Witness ==
    /\ Looked
    /\ warehouse.schema = <<Col(s_event_time, "TIMESTAMP"), Col(s_birthday, "DATE")>>
    /\ response.suggested_config = NoneDict
    /\ response.text # <<>>

\* C19: whatever the message and whichever of list_datasets, list_tables and
\* get_table_schema fail, the rule-based response carries a non-empty text.
C19_FailuresGiveText == Answered => response.text # <<>>

(***************************************************************************)
(* Properties of the LLM loop (LlmSpec)                                    *)
(***************************************************************************)
\* the messages the tool rounds of this call appended to the history copy
RoundMessages == SubSeq(messages, Len(conversation_history) + 1, Len(messages))

\* the tool_use ids of every assistant entry, then of every tool_results entry
RECURSIVE IdsOf(_, _)
IdsOf(msgs, role) ==
    IF msgs = <<>>
    THEN <<>>
    ELSE LET h == Head(msgs)
         IN (IF h.role # role THEN <<>>
             ELSE IF role = "assistant"
             THEN [i \in DOMAIN h.content |-> h.content[i].id]
             ELSE [i \in DOMAIN h.content |-> h.content[i].tool_use_id])
            \o IdsOf(Tail(msgs), role)

\* while the call waits for the LLM, every tool use received so far has been
\* dispatched once, in order, and has its tool_result and its tool_results entry
RoundsComplete ==
    pc = "llm" =>
        /\ agent_ret.kind = "none"
        /\ dispatched = requested
        /\ IdsOf(RoundMessages, "assistant") = requested
        /\ IdsOf(RoundMessages, "user") = requested
        /\ Len(response.tool_results) = Len(requested)
        /\ Len(RoundMessages) % 2 = 0

\* the returned text opens with the degraded-mode note
Degraded ==
    /\ agent_ret.caught # "none"
    /\ Len(response.text) >= 3
    /\ SubSeq(response.text, 1, 3) = FallbackNote(agent_ret.caught)

\* a tool_use result either leads to another LLM call or is a hard failure; a
\* return is a text reply or a hard failure
LoopStep ==
    /\ (pc = "llm" /\ requested' # requested)
            => \/ pc' = "llm" /\ llm_calls' = llm_calls + 1
               \/ pc' = "idle" /\ Degraded'
    /\ (pc = "llm" /\ pc' = "idle")
            => /\ agent_ret'.kind = "return"
               /\ \/ Degraded'
                  \/ /\ requested' = requested
                     /\ agent_ret'.caught = "none"
                     /\ conversation_history' =
                            Append(conversation_history,
                                   [role |-> "assistant", content |-> response'.text])

\* C17: in LLM mode every tool_use result has each requested tool dispatched
\* once in request order, one tool_results entry per tool use, and another
\* LLM call; the call returns only on a result that is not tool_use or on a
\* hard failure, and it does return once the model stops asking for tools.
C17_ToolLoop ==
    /\ []RoundsComplete
    /\ [][LoopStep]_vars
    /\ (pc = "llm" ~> pc = "idle")

\* a text reply after two tool rounds, one of them with two tools
C17_Witness ==
    /\ pc = "idle"
    /\ agent_ret = AgentReturned("none")
    /\ Len(requested) = 3
    /\ dispatched = requested
    /\ Len(response.tool_results) = 3

\* C18: when an LLM call of process_message fails, the text returned is the
\* degraded-mode note followed by the rule-based text for the same user
\* message; it is non-empty, and process_message returns.
C18_FallbackAppended ==
    /\ agent_ret.kind # "raise"
    /\ agent_ret.caught # "none"
        => /\ agent_ret.kind = "return"
           /\ response.text # <<>>
           /\ Degraded
           /\ \E result \in DatasetResults, tables \in TableResults :
                response.text =
                    FallbackNote(agent_ret.caught) \o <<Lit("\n\n")>>
                        \o RuleBasedResponse(UserMessage, result, tables, warehouse).text

\* the LLM fails after a tool round, and the rule-based text is empty
C18_Witness ==
    /\ agent_ret.caught \in LlmErrors
    /\ Len(requested) > 0
    /\ Len(response.text) = 4

\* C20: between calls the history of an LLM-enabled agent alternates user and
\* assistant entries and ends with an assistant entry, and no message list
\* sent to the LLM has two consecutive user turns.
C20_HistoryAlternates ==
    /\ pc = "idle"
        => /\ \A i \in DOMAIN conversation_history :
                conversation_history[i].role =
                    (IF i % 2 = 1 THEN "user" ELSE "assistant")
           /\ Len(conversation_history) % 2 = 0
    /\ \A i \in 1..(Len(messages) - 1) :
            ~(messages[i].role = "user" /\ messages[i + 1].role = "user")

\* the positions of the successful configure_growth_accounting calls in the
\* returned tool_results
ConfigCalls ==
    {i \in DOMAIN response.tool_results :
        /\ response.tool_results[i].tool = "configure_growth_accounting"
        /\ GetSuccess(response.tool_results[i].output)}

LastConfigCall == CHOOSE i \in ConfigCalls : \A j \in ConfigCalls : j <= i

\* C21: when process_message returns, suggested_config is the config of the
\* last successful configure_growth_accounting call of its tool_results, also
\* after a fallback; with no such call and no fallback it is null.
C21_LastConfigReturned ==
    (is_llm_enabled /\ agent_ret.kind = "return")
        => IF ConfigCalls # {}
           THEN response.suggested_config =
                    response.tool_results[LastConfigCall].output.config
           ELSE agent_ret.caught = "none" => response.suggested_config = NoneDict

(***************************************************************************)
(* Properties of the Memory Store (MemorySpec)                             *)
(***************************************************************************)
MemKeys == {"preferences", "recent_tables", "facts"}

NoDuplicates(list) == \A i, j \in DOMAIN list : list[i] = list[j] => i = j

\* C11: after add_recent_table, recent_tables has at most 10 entries, no
\* duplicates, and the table named by the latest call is at index 0, also
\* when that table was already in the list.
C11_MostRecentFirst ==
    (mem_ret.call = "add_recent_table" /\ mem_ret.kind = "ok")
        => /\ Len(memory.recent_tables) <= 10
           /\ NoDuplicates(memory.recent_tables)
           /\ memory.recent_tables[1] = mem_ret.arg

Min(a, b) == IF a < b THEN a ELSE b

\* C12: after n add_fact calls the facts list holds the most recent
\* min(n, 20) facts in insertion order; after 21 calls it has exactly 20
\* entries and the first fact added is gone.
C12_LastTwentyFacts ==
    MemKeys \subseteq DOMAIN memory =>
        LET kept == Min(now, 20)
        IN /\ Len(memory.facts) = kept
           /\ \A i \in 1..Len(memory.facts) :
                 /\ memory.facts[i].timestamp = now - kept + i
                 /\ memory.facts[i].fact \in FactTexts
           /\ now = 21 =>
                 (Len(memory.facts) = 20 /\ \A i \in 1..20 : memory.facts[i].timestamp # 1)

C12_Witness ==
    /\ now = 21
    /\ Len(memory.facts) = 20
    /\ mem_ret.call = "add_fact"

Mutations == {"add_preference", "add_recent_table", "add_fact"}

\* C13: every mutation persists the whole record before it returns: the
\* file then holds the in-memory record and reloading it yields the same
\* preferences, recent_tables and facts.
C13_MutationsPersist ==
    (mem_ret.call \in Mutations /\ mem_ret.kind = "ok")
        => /\ memory_file \notin {NoneDict, Corrupt}
           /\ memory_file = SaveDoc(memory)
           /\ ParseDoc(memory_file) = memory
           /\ mem_ret.call = "add_fact"
                => ParseDoc(memory_file).facts[Len(memory_file.facts)].fact = mem_ret.arg

C13_Witness ==
    /\ mem_ret.call = "add_fact"
    /\ mem_ret.kind = "ok"
    /\ Len(memory.facts) = 2
    /\ Len(memory.recent_tables) = 2
    /\ memory_file = SaveDoc(memory)

====
